---------------------------- MODULE Spec2Model ----------------------------
(***************************************************************************)
(* A model of src/src/lib.rs: the per-connection Handler (a one-slot state  *)
(* machine pairing a protocol function with a negotiated substream) and the *)
(* Behaviour (pending-request queue, result queue, connected-peer map).     *)
(*                                                                          *)
(*   SpecH, SpecHFair   one Handler driven by an arbitrary caller           *)
(*   SpecB, SpecBFair   one Behaviour driven by an arbitrary caller         *)
(*   SpecSys, SpecSysFair  the Behaviour and its Handlers under the swarm   *)
(***************************************************************************)
EXTENDS Naturals, Integers, Sequences, FiniteSets, TLC

(***************************************************************************)
(* Bounds of the model.                                                     *)
(***************************************************************************)
\* protocol functions (boxed FnOnce closures) a caller may hand to a Handler
MaxFn == 2
\* negotiated substreams the environment may hand to a Handler
MaxSub == 2

\* calls other than poll made on the Behaviour over a run (requests
\* submitted, connections established and closed, outcomes injected)
MaxOps == 4

Fns == 1..MaxFn
Subs == 1..MaxSub
\* PeerId and Multiaddr values
Peers == {"A", "B"}
Addrs == {"a1", "a2"}
NoPeer == "-"
NoFn == 0
NoSub == 0

(***************************************************************************)
(* ProtocolState<I, O, E> and its two nested enums.  A state is a record    *)
(* [kind, st, fn, sub]: kind is the outer variant, st the inner variant,    *)
(* fn the boxed protocol function held, sub the substream held.  Executing  *)
(* holds the future protocol_fn(substream), i.e. both.                      *)
(***************************************************************************)
PState(kind, st, fn, sub) == [kind |-> kind, st |-> st, fn |-> fn, sub |-> sub]

None == PState("None", "-", NoFn, NoSub)
Done == PState("Done", "-", NoFn, NoSub)
Poisoned == PState("Poisoned", "-", NoFn, NoSub)
InboundGotFunctionNeedSubstream(f) == PState("Inbound", "GotFunctionNeedSubstream", f, NoSub)
InboundGotSubstreamNeedFunction(s) == PState("Inbound", "GotSubstreamNeedFunction", NoFn, s)
InboundExecuting(protocol) == PState("Inbound", "Executing", protocol.fn, protocol.sub)
OutboundGotFunctionNeedSubstream(f) == PState("Outbound", "GotFunctionNeedSubstream", f, NoSub)
OutboundGotFunctionRequestedSubstream(f) == PState("Outbound", "GotFunctionRequestedSubstream", f, NoSub)
OutboundExecuting(protocol) == PState("Outbound", "Executing", protocol.fn, protocol.sub)

ProtocolState ==
    {None, Done, Poisoned}
    \cup {InboundGotFunctionNeedSubstream(f) : f \in Fns}
    \cup {InboundGotSubstreamNeedFunction(s) : s \in Subs}
    \cup {OutboundGotFunctionNeedSubstream(f) : f \in Fns}
    \cup {OutboundGotFunctionRequestedSubstream(f) : f \in Fns}
    \cup {InboundExecuting([fn |-> f, sub |-> s]) : f \in Fns, s \in Subs}
    \cup {OutboundExecuting([fn |-> f, sub |-> s]) : f \in Fns, s \in Subs}

\* protocol_fn(substream): calling the boxed closure yields the future
\* Protocol<T, E>, identified by the function and the substream it runs on
Protocol(protocol_fn, substream) == [fn |-> protocol_fn, sub |-> substream]

\* ProtocolInEvent
ExecuteInbound(f) == [type |-> "ExecuteInbound", fn |-> f]
ExecuteOutbound(f) == [type |-> "ExecuteOutbound", fn |-> f]

\* ProtocolOutEvent: Inbound(res) / Outbound(res); res is the future's output
ProtocolOutEvent(dir, res) == [dir |-> dir, res |-> res]

\* what a protocol future resolves to: Ok(..) or Err(..) of that execution
ResultOf(protocol, val) == [fn |-> protocol.fn, sub |-> protocol.sub, val |-> val]

\* what a call hands back: () of the inject_* methods, or poll's
\* Poll<ProtocolsHandlerEvent<..>>; every value carries the same fields
NoRes == [fn |-> NoFn, sub |-> NoSub, val |-> "-"]
Unit == [type |-> "Unit", ev |-> ProtocolOutEvent("-", NoRes)]
Unwound == [type |-> "Panic", ev |-> ProtocolOutEvent("-", NoRes)]
PollPending == [type |-> "Pending", ev |-> ProtocolOutEvent("-", NoRes)]
OutboundSubstreamRequest == [type |-> "OutboundSubstreamRequest", ev |-> ProtocolOutEvent("-", NoRes)]
Custom(ev) == [type |-> "Custom", ev |-> ev]


(***************************************************************************)
(* The outcome of one call on a Handler: the state it leaves in self.state, *)
(* the panic message ("" when the call returned), the value returned, and   *)
(* the futures created by calling protocol_fn(substream) during the call.   *)
(***************************************************************************)
NoPanic == ""
Returned(state, ret, called) == [state |-> state, panic |-> NoPanic, ret |-> ret, called |-> called]
\* mem::replace left Poisoned in self.state before panic!() unwinds
Panicked(msg) == [state |-> Poisoned, panic |-> msg, ret |-> Unwound, called |-> <<>>]

\* Handler::new
Handler_new == None

\* a variant that parks an inbound substream over an outbound request
Handler_inject_fully_negotiated_inbound_cross(state, substream) ==
    CASE state = None \/ state.kind = "Outbound" ->
            Returned(InboundGotSubstreamNeedFunction(substream), Unit, <<>>)
      [] state.kind = "Inbound" /\ state.st = "GotFunctionNeedSubstream" ->
            Returned(InboundExecuting(Protocol(state.fn, substream)), Unit,
                     <<[dir |-> "Inbound", fn |-> state.fn, sub |-> substream]>>)
      [] state.kind = "Inbound" \/ state = Done ->
            Panicked("Illegal state, substream is already present.")
      [] state = Poisoned ->
            Panicked("Illegal state, currently in transient state poisoned.")

\* Handler::inject_fully_negotiated_inbound
Handler_inject_fully_negotiated_inbound(state, substream) ==
    CASE state = None ->
            Returned(InboundGotSubstreamNeedFunction(substream), Unit, <<>>)
      [] state.kind = "Inbound" /\ state.st = "GotFunctionNeedSubstream" ->
            Returned(InboundExecuting(Protocol(state.fn, substream)), Unit,
                     <<[dir |-> "Inbound", fn |-> state.fn, sub |-> substream]>>)
      [] state.kind = "Inbound" \/ state = Done ->
            Panicked("Illegal state, substream is already present.")
      [] state.kind = "Outbound" ->
            Panicked("Failed to process inbound substream in outbound protocol.")
      [] state = Poisoned ->
            Panicked("Illegal state, currently in transient state poisoned.")

\* Handler::inject_fully_negotiated_outbound
Handler_inject_fully_negotiated_outbound(state, substream) ==
    CASE state.kind = "Outbound" /\ state.st = "GotFunctionRequestedSubstream" ->
            Returned(OutboundExecuting(Protocol(state.fn, substream)), Unit,
                     <<[dir |-> "Outbound", fn |-> state.fn, sub |-> substream]>>)
      [] state = None \/ (state.kind = "Outbound" /\ state.st = "GotFunctionNeedSubstream") ->
            Panicked("Illegal state, receiving substream means it was requested.")
      [] state.kind = "Outbound" \/ state = Done ->
            Panicked("Illegal state, substream is already present.")
      [] state.kind = "Inbound" ->
            Panicked("Failed to process outbound substream in inbound protocol.")
      [] state = Poisoned ->
            Panicked("Illegal state, currently in transient state poisoned.")

\* a variant that accepts a new inbound function once the first run is Done
Handler_inject_event_inbound_restart(state, protocol_fn) ==
    CASE state = None \/ state = Done ->
            Returned(InboundGotFunctionNeedSubstream(protocol_fn), Unit, <<>>)
      [] state.kind = "Inbound" /\ state.st = "GotSubstreamNeedFunction" ->
            Returned(InboundExecuting(Protocol(protocol_fn, state.sub)), Unit,
                     <<[dir |-> "Inbound", fn |-> protocol_fn, sub |-> state.sub]>>)
      [] state.kind = "Inbound" ->
            Panicked("Illegal state, protocol fn is already present.")
      [] state.kind = "Outbound" ->
            Panicked("Failed to process inbound protocol fn in outbound protocol.")
      [] state = Poisoned ->
            Panicked("Illegal state, currently in transient state poisoned.")

\* a variant that parks the function although an inbound substream is held
Handler_inject_event_inbound_nopair(state, protocol_fn) ==
    CASE state = None \/ (state.kind = "Inbound" /\ state.st = "GotSubstreamNeedFunction") ->
            Returned(InboundGotFunctionNeedSubstream(protocol_fn), Unit, <<>>)
      [] state.kind = "Inbound" \/ state = Done ->
            Panicked("Illegal state, protocol fn is already present.")
      [] state.kind = "Outbound" ->
            Panicked("Failed to process inbound protocol fn in outbound protocol.")
      [] state = Poisoned ->
            Panicked("Illegal state, currently in transient state poisoned.")

\* Handler::inject_event, arm ProtocolInEvent::ExecuteInbound(protocol_fn)
Handler_inject_event_inbound(state, protocol_fn) ==
    CASE state = None ->
            Returned(InboundGotFunctionNeedSubstream(protocol_fn), Unit, <<>>)
      [] state.kind = "Inbound" /\ state.st = "GotSubstreamNeedFunction" ->
            Returned(InboundExecuting(Protocol(protocol_fn, state.sub)), Unit,
                     <<[dir |-> "Inbound", fn |-> protocol_fn, sub |-> state.sub]>>)
      [] state.kind = "Inbound" \/ state = Done ->
            Panicked("Illegal state, protocol fn is already present.")
      [] state.kind = "Outbound" ->
            Panicked("Failed to process inbound protocol fn in outbound protocol.")
      [] state = Poisoned ->
            Panicked("Illegal state, currently in transient state poisoned.")

\* a variant in which a second outbound function replaces the one held
Handler_inject_event_outbound_overwrite(state, protocol_fn) ==
    CASE state = None \/ state.kind = "Outbound" ->
            Returned(OutboundGotFunctionNeedSubstream(protocol_fn), Unit, <<>>)
      [] state = Done ->
            Panicked("Illegal state, protocol fn is already present.")
      [] state.kind = "Inbound" ->
            Panicked("Failed to process outbound protocol fn in inbound protocol.")
      [] state = Poisoned ->
            Panicked("Illegal state, currently in transient state poisoned.")

\* a variant in which a second outbound function is dropped without a panic
Handler_inject_event_outbound_ignore(state, protocol_fn) ==
    CASE state = None ->
            Returned(OutboundGotFunctionNeedSubstream(protocol_fn), Unit, <<>>)
      [] state.kind = "Outbound" ->
            Returned(state, Unit, <<>>)
      [] state = Done ->
            Panicked("Illegal state, protocol fn is already present.")
      [] state.kind = "Inbound" ->
            Panicked("Failed to process outbound protocol fn in inbound protocol.")
      [] state = Poisoned ->
            Panicked("Illegal state, currently in transient state poisoned.")

\* Handler::inject_event, arm ProtocolInEvent::ExecuteOutbound(protocol_fn)
Handler_inject_event_outbound(state, protocol_fn) ==
    CASE state = None ->
            Returned(OutboundGotFunctionNeedSubstream(protocol_fn), Unit, <<>>)
      [] state.kind = "Outbound" \/ state = Done ->
            Panicked("Illegal state, protocol fn is already present.")
      [] state.kind = "Inbound" ->
            Panicked("Failed to process outbound protocol fn in inbound protocol.")
      [] state = Poisoned ->
            Panicked("Illegal state, currently in transient state poisoned.")

\* Handler::inject_event
Handler_inject_event(state, event) ==
    IF event.type = "ExecuteInbound"
    THEN Handler_inject_event_inbound(state, event.fn)
    ELSE Handler_inject_event_outbound(state, event.fn)

\* Handler::inject_dial_upgrade_error: log::error! only, self.state untouched
Handler_inject_dial_upgrade_error(state) ==
    Returned(state, Unit, <<>>)

\* a variant whose last arm returns without putting the state back
Handler_poll_norestore(state, polled) ==
    CASE state.st = "Executing" ->
            IF polled # "Pending"
            THEN Returned(Done,
                          Custom(ProtocolOutEvent(state.kind,
                              ResultOf(Protocol(state.fn, state.sub), polled))), <<>>)
            ELSE Returned(state, PollPending, <<>>)
      [] state.kind = "Outbound" /\ state.st = "GotFunctionNeedSubstream" ->
            Returned(OutboundGotFunctionRequestedSubstream(state.fn),
                     OutboundSubstreamRequest, <<>>)
      [] state = Poisoned ->
            Panicked("Protocol is poisoned (transient state)")
      [] OTHER ->
            Returned(Poisoned, PollPending, <<>>)

\* a variant that gives up on a future that is not ready
Handler_poll_giveup(state, polled) ==
    CASE state.st = "Executing" ->
            IF polled # "Pending"
            THEN Returned(Done,
                          Custom(ProtocolOutEvent(state.kind,
                              ResultOf(Protocol(state.fn, state.sub), polled))), <<>>)
            ELSE Returned(Done, PollPending, <<>>)
      [] state.kind = "Outbound" /\ state.st = "GotFunctionNeedSubstream" ->
            Returned(OutboundGotFunctionRequestedSubstream(state.fn),
                     OutboundSubstreamRequest, <<>>)
      [] state = Poisoned ->
            Panicked("Protocol is poisoned (transient state)")
      [] OTHER ->
            Returned(state, PollPending, <<>>)

\* a variant that asks for an outbound substream on every poll
Handler_poll_rerequest(state, polled) ==
    CASE state.st = "Executing" /\ polled # "Pending" ->
            Returned(Done,
                     Custom(ProtocolOutEvent(state.kind,
                         ResultOf(Protocol(state.fn, state.sub), polled))), <<>>)
      [] state.kind = "Outbound"
            /\ state.st \in {"GotFunctionNeedSubstream", "GotFunctionRequestedSubstream"} ->
            Returned(OutboundGotFunctionRequestedSubstream(state.fn),
                     OutboundSubstreamRequest, <<>>)
      [] state = Poisoned ->
            Panicked("Protocol is poisoned (transient state)")
      [] OTHER ->
            Returned(state, PollPending, <<>>)

\* a variant that yields the outcome but keeps the finished future in place
Handler_poll_reyield(state, polled) ==
    CASE state.st = "Executing" /\ polled # "Pending" ->
            Returned(state,
                     Custom(ProtocolOutEvent(state.kind,
                         ResultOf(Protocol(state.fn, state.sub), polled))), <<>>)
      [] state.kind = "Outbound" /\ state.st = "GotFunctionNeedSubstream" ->
            Returned(OutboundGotFunctionRequestedSubstream(state.fn),
                     OutboundSubstreamRequest, <<>>)
      [] state = Poisoned ->
            Panicked("Protocol is poisoned (transient state)")
      [] OTHER ->
            Returned(state, PollPending, <<>>)

\* Handler::poll.  polled is what protocol.poll_unpin(cx) gives when the
\* state is Executing: "Pending", or the value the future is ready with.
Handler_poll(state, polled) ==
    CASE state.kind = "Inbound" /\ state.st = "Executing" ->
            IF polled # "Pending"
            THEN Returned(Done,
                          Custom(ProtocolOutEvent("Inbound",
                              ResultOf(Protocol(state.fn, state.sub), polled))), <<>>)
            ELSE Returned(InboundExecuting(Protocol(state.fn, state.sub)), PollPending, <<>>)
      [] state.kind = "Outbound" /\ state.st = "Executing" ->
            IF polled # "Pending"
            THEN Returned(Done,
                          Custom(ProtocolOutEvent("Outbound",
                              ResultOf(Protocol(state.fn, state.sub), polled))), <<>>)
            ELSE Returned(OutboundExecuting(Protocol(state.fn, state.sub)), PollPending, <<>>)
      [] state.kind = "Outbound" /\ state.st = "GotFunctionNeedSubstream" ->
            Returned(OutboundGotFunctionRequestedSubstream(state.fn),
                     OutboundSubstreamRequest, <<>>)
      [] state = Poisoned ->
            Panicked("Protocol is poisoned (transient state)")
      [] OTHER ->
            Returned(state, PollPending, <<>>)


(***************************************************************************)
(* The Behaviour.  protocol_in_events and protocol_out_events are VecDeques *)
(* (sequences, head first); connected_peers is a HashMap from PeerId to     *)
(* Vec<Multiaddr> (a function whose domain is the set of keys).             *)
(***************************************************************************)
\* an entry (PeerId, ProtocolInEvent) of protocol_in_events
InEntry(peer, event) == [peer |-> peer, event |-> event]
\* an entry (PeerId, ProtocolOutEvent) of protocol_out_events
OutEntry(peer, event) == [peer |-> peer, event |-> event]

\* BehaviourOutEvent::Inbound(peer, res) / Outbound(peer, res)
BehaviourOutEvent(dir, peer, res) == [dir |-> dir, peer |-> peer, res |-> res]

\* NetworkBehaviourAction as poll returns it, every value with the same fields
NoInEvent == [type |-> "-", fn |-> NoFn]
NoOutEvent == BehaviourOutEvent("-", NoPeer, NoRes)
NotifyHandler(peer, event) ==
    [type |-> "NotifyHandler", peer_id |-> peer, handler |-> "Any", event |-> event, out |-> NoOutEvent]
GenerateEvent(out) ==
    [type |-> "GenerateEvent", peer_id |-> NoPeer, handler |-> "-", event |-> NoInEvent, out |-> out]
BehaviourPending ==
    [type |-> "Pending", peer_id |-> NoPeer, handler |-> "-", event |-> NoInEvent, out |-> NoOutEvent]

\* Behaviour::do_protocol_listener
Behaviour_do_protocol_listener(protocol_in_events, peer, protocol) ==
    Append(protocol_in_events, InEntry(peer, ExecuteInbound(protocol)))

\* Behaviour::do_protocol_dialer
Behaviour_do_protocol_dialer(protocol_in_events, peer, protocol) ==
    Append(protocol_in_events, InEntry(peer, ExecuteOutbound(protocol)))

\* connected_peers.get(peer).cloned().unwrap_or_default()
Behaviour_addresses_of_peer(connected_peers, peer) ==
    IF peer \in DOMAIN connected_peers THEN connected_peers[peer] ELSE <<>>

\* a call of addresses_of_peer(&mut self, peer): the map it leaves in self
\* (HashMap::get inserts nothing) and the value it returns
Behaviour_addresses_of_peer_call(connected_peers, peer) ==
    [connected_peers |-> connected_peers,
     ret |-> Behaviour_addresses_of_peer(connected_peers, peer)]

\* HashMap::insert
Insert(map, key, value) ==
    [k \in DOMAIN map \cup {key} |-> IF k = key THEN value ELSE map[k]]

\* Behaviour::inject_connection_established: entry(peer).or_default().push(addr)
Behaviour_inject_connection_established(connected_peers, peer, multiaddr) ==
    Insert(connected_peers, peer,
           Append(Behaviour_addresses_of_peer(connected_peers, peer), multiaddr))

\* Vec::retain(|addr| addr != multiaddr)
Retain(addrs, multiaddr) == SelectSeq(addrs, LAMBDA addr : addr # multiaddr)

\* a variant that forgets every address of the peer
Behaviour_inject_connection_closed_clear(connected_peers, peer, multiaddr) ==
    Insert(connected_peers, peer, <<>>)

\* a variant that removes the peer's entry with its last address
Behaviour_inject_connection_closed_prune(connected_peers, peer, multiaddr) ==
    LET left == Retain(Behaviour_addresses_of_peer(connected_peers, peer), multiaddr) IN
        IF left = <<>>
        THEN [k \in DOMAIN connected_peers \ {peer} |-> connected_peers[k]]
        ELSE Insert(connected_peers, peer, left)

\* Behaviour::inject_connection_closed: entry(peer).or_default().retain(..)
Behaviour_inject_connection_closed(connected_peers, peer, multiaddr) ==
    Insert(connected_peers, peer,
           Retain(Behaviour_addresses_of_peer(connected_peers, peer), multiaddr))

\* Behaviour::inject_event
Behaviour_inject_event(protocol_out_events, peer, event) ==
    Append(protocol_out_events, OutEntry(peer, event))

\* a variant that takes the newest outcome off protocol_out_events
Behaviour_poll_results_lifo(protocol_in_events, protocol_out_events) ==
    IF protocol_out_events # <<>>
    THEN LET n == Len(protocol_out_events) IN
         [protocol_in_events |-> protocol_in_events,
          protocol_out_events |-> SubSeq(protocol_out_events, 1, n - 1),
          ret |-> GenerateEvent(BehaviourOutEvent(protocol_out_events[n].event.dir,
                                                  protocol_out_events[n].peer,
                                                  protocol_out_events[n].event.res))]
    ELSE [protocol_in_events |-> protocol_in_events,
          protocol_out_events |-> protocol_out_events,
          ret |-> BehaviourPending]

\* Behaviour::poll, the part after the pending-request step: the head of
\* protocol_out_events, if any, becomes a GenerateEvent
Behaviour_poll_results(protocol_in_events, protocol_out_events) ==
    IF protocol_out_events # <<>>
    THEN [protocol_in_events |-> protocol_in_events,
          protocol_out_events |-> Tail(protocol_out_events),
          ret |-> GenerateEvent(BehaviourOutEvent(Head(protocol_out_events).event.dir,
                                                  Head(protocol_out_events).peer,
                                                  Head(protocol_out_events).event.res))]
    ELSE [protocol_in_events |-> protocol_in_events,
          protocol_out_events |-> protocol_out_events,
          ret |-> BehaviourPending]

\* a variant that drops a request it cannot dispatch
Behaviour_poll_drop(protocol_in_events, protocol_out_events, connected_peers) ==
    IF protocol_in_events # <<>>
    THEN IF Head(protocol_in_events).peer \notin DOMAIN connected_peers
         THEN Behaviour_poll_results(Tail(protocol_in_events), protocol_out_events)
         ELSE [protocol_in_events |-> Tail(protocol_in_events),
               protocol_out_events |-> protocol_out_events,
               ret |-> NotifyHandler(Head(protocol_in_events).peer,
                                     Head(protocol_in_events).event)]
    ELSE Behaviour_poll_results(protocol_in_events, protocol_out_events)

\* a variant that returns Pending right after re-enqueueing a request
Behaviour_poll_early_return(protocol_in_events, protocol_out_events, connected_peers) ==
    IF protocol_in_events # <<>>
    THEN IF Head(protocol_in_events).peer \notin DOMAIN connected_peers
         THEN [protocol_in_events |-> Append(Tail(protocol_in_events), Head(protocol_in_events)),
               protocol_out_events |-> protocol_out_events,
               ret |-> BehaviourPending]
         ELSE [protocol_in_events |-> Tail(protocol_in_events),
               protocol_out_events |-> protocol_out_events,
               ret |-> NotifyHandler(Head(protocol_in_events).peer,
                                     Head(protocol_in_events).event)]
    ELSE Behaviour_poll_results(protocol_in_events, protocol_out_events)

\* a variant that puts a request it cannot dispatch back at the head
Behaviour_poll_requeue_front(protocol_in_events, protocol_out_events, connected_peers) ==
    IF protocol_in_events # <<>>
    THEN IF Head(protocol_in_events).peer \notin DOMAIN connected_peers
         THEN Behaviour_poll_results(protocol_in_events, protocol_out_events)
         ELSE [protocol_in_events |-> Tail(protocol_in_events),
               protocol_out_events |-> protocol_out_events,
               ret |-> NotifyHandler(Head(protocol_in_events).peer,
                                     Head(protocol_in_events).event)]
    ELSE Behaviour_poll_results(protocol_in_events, protocol_out_events)

\* Behaviour::poll
Behaviour_poll(protocol_in_events, protocol_out_events, connected_peers) ==
    IF protocol_in_events # <<>>
    THEN IF Head(protocol_in_events).peer \notin DOMAIN connected_peers
         THEN Behaviour_poll_results(
                  Append(Tail(protocol_in_events), Head(protocol_in_events)),
                  protocol_out_events)
         ELSE [protocol_in_events |-> Tail(protocol_in_events),
               protocol_out_events |-> protocol_out_events,
               ret |-> NotifyHandler(Head(protocol_in_events).peer,
                                     Head(protocol_in_events).event)]
    ELSE Behaviour_poll_results(protocol_in_events, protocol_out_events)

(***************************************************************************)
(* The state of one Handler and its caller (SpecH).                         *)
(*   state      Handler::state                                              *)
(*   fut        the in-flight future as its next poll_unpin will find it:   *)
(*              "Pending", or the value it is ready with ("Ok" / "Err")     *)
(*   last       the last call made on the Handler (method, direction,       *)
(*              function and substream passed) and how it ended             *)
(*   started    history: every future created by protocol_fn(substream)     *)
(*   outEvents  history: every ProtocolOutEvent yielded by poll             *)
(*   requested  history: number of OutboundSubstreamRequest yielded by poll *)
(***************************************************************************)
VARIABLES state, fut, last, started, outEvents, requested

(***************************************************************************)
(* The state of one Behaviour and its caller (SpecB).                       *)
(*   protocol_in_events, protocol_out_events, connected_peers               *)
(*              the fields of Behaviour                                     *)
(*   live       live[peer][addr]: the number of connections to peer through *)
(*              addr that are established and not closed; nconn counts the  *)
(*              connections ever established                                *)
(*   notified   the peers for which a connection-established notification   *)
(*              has arrived                                                 *)
(*   nreq       number of requests submitted; the k-th request carries the  *)
(*              closure k                                                   *)
(*   nout       number of outcomes injected by connection handlers          *)
(*   dispatched history: the requests poll yielded as NotifyHandler         *)
(*   delivered  history: the BehaviourOutEvents poll yielded                *)
(* Every call but poll advances nreq, nconn, nout or live, and poll's       *)
(* return value is the growth of dispatched or delivered (or Pending).      *)
(***************************************************************************)
VARIABLES protocol_in_events, protocol_out_events, connected_peers,
          live, notified, nconn, nreq, nout, dispatched, delivered

(***************************************************************************)
(* The swarm around the Behaviour (SpecSys): one Handler per connection.    *)
(*   conns      conns[c], for the c-th connection established: its peer and *)
(*              address, whether it is still open, its Handler's state, the *)
(*              future the Handler runs (fut, as above), the negotiation of *)
(*              the outbound substream the Handler asked for (neg: "idle",  *)
(*              "wanted", "done", "failed"), and whether the remote has     *)
(*              opened its inbound substream (inb)                          *)
(*   handed     history: [fn, conn] for every request the swarm took from   *)
(*              poll, with the connection whose Handler got it (0: no       *)
(*              connection to the peer, the event was dropped)              *)
(***************************************************************************)
VARIABLES conns, handed

hvars == <<state, fut, last, started, outEvents, requested>>
svars == <<conns, handed>>
bvars == <<protocol_in_events, protocol_out_events, connected_peers,
           live, notified, nconn, nreq, nout, dispatched, delivered>>
vars == <<hvars, bvars, svars>>

Call(op, dir, f, s, r) ==
    [op |-> op, dir |-> dir, fn |-> f, sub |-> s, panic |-> r.panic, ret |-> r.ret]

\* Behaviour::new
InitB ==
    /\ protocol_in_events = <<>>
    /\ protocol_out_events = <<>>
    /\ connected_peers = <<>>
    /\ live = [peer \in Peers |-> [addr \in Addrs |-> 0]]
    /\ notified = {}
    /\ nconn = 0
    /\ nreq = 0
    /\ nout = 0
    /\ dispatched = <<>>
    /\ delivered = <<>>

InitH ==
    /\ state = Handler_new
    /\ fut = "Pending"
    /\ last = [op |-> "new", dir |-> "-", fn |-> NoFn, sub |-> NoSub, panic |-> NoPanic, ret |-> Unit]
    /\ started = <<>>
    /\ outEvents = <<>>
    /\ requested = 0

\* the effect of a call with outcome r on the Handler and the histories
Apply(op, dir, f, s, r) ==
    /\ state' = r.state
    /\ last' = Call(op, dir, f, s, r)
    /\ started' = started \o r.called
    /\ outEvents' = IF r.ret.type = "Custom"
                    THEN Append(outEvents, r.ret.ev) ELSE outEvents
    /\ requested' = IF r.ret = OutboundSubstreamRequest THEN requested + 1 ELSE requested
    /\ UNCHANGED <<bvars, svars>>

\* the negotiation collaborator delivers an inbound substream
HInboundSubstream ==
    \E s \in Subs :
        /\ Apply("inject_fully_negotiated_inbound", "Inbound", NoFn, s,
                 Handler_inject_fully_negotiated_inbound(state, s))
        /\ UNCHANGED fut

\* the negotiation collaborator delivers an outbound substream
HOutboundSubstream ==
    \E s \in Subs :
        /\ Apply("inject_fully_negotiated_outbound", "Outbound", NoFn, s,
                 Handler_inject_fully_negotiated_outbound(state, s))
        /\ UNCHANGED fut

\* submit(Inbound, f)
HExecuteInbound ==
    \E f \in Fns :
        /\ Apply("inject_event", "Inbound", f, NoSub, Handler_inject_event(state, ExecuteInbound(f)))
        /\ UNCHANGED fut

\* submit(Outbound, f)
HExecuteOutbound ==
    \E f \in Fns :
        /\ Apply("inject_event", "Outbound", f, NoSub, Handler_inject_event(state, ExecuteOutbound(f)))
        /\ UNCHANGED fut

HDialUpgradeError ==
    /\ Apply("inject_dial_upgrade_error", "Outbound", NoFn, NoSub, Handler_inject_dial_upgrade_error(state))
    /\ UNCHANGED fut

\* the protocol function's I/O completes: its future becomes ready
HFutureReady ==
    /\ state.st = "Executing"
    /\ fut = "Pending"
    /\ \E val \in {"Ok", "Err"} : fut' = val
    /\ UNCHANGED <<state, last, started, outEvents, requested>>
    /\ UNCHANGED <<bvars, svars>>

HPoll ==
    /\ Apply("poll", "-", NoFn, NoSub, Handler_poll(state, fut))
    /\ UNCHANGED fut

NextH ==
    \/ HInboundSubstream
    \/ HOutboundSubstream
    \/ HExecuteInbound
    \/ HExecuteOutbound
    \/ HDialUpgradeError
    \/ HFutureReady
    \/ HPoll


InitSys ==
    /\ conns = <<>>
    /\ handed = {}

Init == InitH /\ InitB /\ InitSys

SpecH == Init /\ [][NextH]_vars

(***************************************************************************)
(* SpecB: the calls on one Behaviour.                                       *)
(***************************************************************************)
\* the number of live connections to peer
RECURSIVE SumOver(_, _)
SumOver(f, S) ==
    IF S = {} THEN 0
    ELSE LET x == CHOOSE y \in S : TRUE IN f[x] + SumOver(f, S \ {x})

Connections(peer) == SumOver(live[peer], Addrs)

\* the calls other than poll made so far: submits, outcomes, connections
\* established, connections closed
Ops == nreq + nout + nconn + (nconn - SumOver([p \in Peers |-> Connections(p)], Peers))

\* run_as_listener(peer, protocol)
BDoProtocolListener ==
    \E peer \in Peers :
        /\ Ops < MaxOps
        /\ nreq' = nreq + 1
        /\ protocol_in_events' = Behaviour_do_protocol_listener(protocol_in_events, peer, nreq + 1)
        /\ UNCHANGED <<protocol_out_events, connected_peers, live, notified, nconn, nout, dispatched, delivered>>
        /\ UNCHANGED <<hvars, svars>>

\* run_as_dialer(peer, protocol)
BDoProtocolDialer ==
    \E peer \in Peers :
        /\ Ops < MaxOps
        /\ nreq' = nreq + 1
        /\ protocol_in_events' = Behaviour_do_protocol_dialer(protocol_in_events, peer, nreq + 1)
        /\ UNCHANGED <<protocol_out_events, connected_peers, live, notified, nconn, nout, dispatched, delivered>>
        /\ UNCHANGED <<hvars, svars>>

\* the swarm reports a new connection to peer through addr
BConnectionEstablished ==
    \E peer \in Peers, addr \in Addrs :
        /\ Ops < MaxOps
        /\ nconn' = nconn + 1
        /\ live' = [live EXCEPT ![peer][addr] = @ + 1]
        /\ notified' = notified \cup {peer}
        /\ connected_peers' = Behaviour_inject_connection_established(connected_peers, peer, addr)
        /\ UNCHANGED <<protocol_in_events, protocol_out_events, nreq, nout, dispatched, delivered>>
        /\ UNCHANGED <<hvars, svars>>

\* the swarm reports that a live connection was closed
BConnectionClosed ==
    \E peer \in Peers, addr \in Addrs :
        /\ live[peer][addr] > 0
        /\ Ops < MaxOps
        /\ live' = [live EXCEPT ![peer][addr] = @ - 1]
        /\ connected_peers' = Behaviour_inject_connection_closed(connected_peers, peer, addr)
        /\ UNCHANGED <<protocol_in_events, protocol_out_events, notified, nconn, nreq, nout, dispatched, delivered>>
        /\ UNCHANGED <<hvars, svars>>

\* the handler of a live connection to peer reports an outcome; the result
\* it carries is opaque to the Behaviour, and the k-th outcome is tagged k so
\* that outcomes can be told apart
BInjectEvent ==
    \E peer \in Peers, dir \in {"Inbound", "Outbound"} :
        /\ Connections(peer) > 0
        /\ Ops < MaxOps
        /\ nout' = nout + 1
        /\ protocol_out_events' =
                Behaviour_inject_event(protocol_out_events, peer,
                    ProtocolOutEvent(dir, [fn |-> nout + 1, sub |-> NoSub, val |-> "Ok"]))
        /\ UNCHANGED <<protocol_in_events, connected_peers, live, notified, nconn, nreq, dispatched, delivered>>
        /\ UNCHANGED <<hvars, svars>>

\* the swarm asks for the addresses of a peer, known or not
BAddressesOfPeer ==
    \E peer \in Peers :
        /\ connected_peers' = Behaviour_addresses_of_peer_call(connected_peers, peer).connected_peers
        /\ UNCHANGED <<protocol_in_events, protocol_out_events, live, notified, nconn, nreq, nout, dispatched, delivered>>
        /\ UNCHANGED <<hvars, svars>>

BPoll ==
    LET r == Behaviour_poll(protocol_in_events, protocol_out_events, connected_peers) IN
        /\ protocol_in_events' = r.protocol_in_events
        /\ protocol_out_events' = r.protocol_out_events
        /\ dispatched' = IF r.ret.type = "NotifyHandler"
                         THEN Append(dispatched, InEntry(r.ret.peer_id, r.ret.event))
                         ELSE dispatched
        /\ delivered' = IF r.ret.type = "GenerateEvent"
                        THEN Append(delivered, r.ret.out)
                        ELSE delivered
        /\ UNCHANGED <<connected_peers, live, notified, nconn, nreq, nout>>
        /\ UNCHANGED <<hvars, svars>>

NextB ==
    \/ BDoProtocolListener
    \/ BDoProtocolDialer
    \/ BConnectionEstablished
    \/ BConnectionClosed
    \/ BInjectEvent
    \/ BAddressesOfPeer
    \/ BPoll

SpecB == Init /\ [][NextB]_vars

\* the swarm polls the Behaviour again and again
SpecBFair == SpecB /\ WF_vars(BPoll)

\* the caller polls the Handler again and again, and the protocol function
\* that is running completes
SpecHFair == SpecH /\ WF_vars(HPoll) /\ WF_vars(HFutureReady)

(***************************************************************************)
(* SpecSys: the Behaviour, the Handlers of its connections and a swarm that *)
(* keeps to the ProtocolsHandler / NetworkBehaviour calling conventions: a  *)
(* NotifyHandler event goes to the Handler of some open connection to the   *)
(* peer (and is dropped when there is none), an outbound substream is       *)
(* negotiated only after the Handler asked for one, and what a Handler      *)
(* yields as Custom is passed to Behaviour::inject_event.                   *)
(***************************************************************************)
Open(c) == c \in 1..Len(conns) /\ conns[c].open

\* Behaviour::new_handler, at inject_connection_established
SConnectionEstablished ==
    \E peer \in Peers, addr \in Addrs :
        /\ Ops < MaxOps
        /\ nconn' = nconn + 1
        /\ live' = [live EXCEPT ![peer][addr] = @ + 1]
        /\ notified' = notified \cup {peer}
        /\ connected_peers' = Behaviour_inject_connection_established(connected_peers, peer, addr)
        /\ conns' = Append(conns, [peer |-> peer, addr |-> addr, open |-> TRUE,
                                   state |-> Handler_new, fut |-> "Pending",
                                   neg |-> "idle", inb |-> FALSE])
        /\ UNCHANGED <<protocol_in_events, protocol_out_events, nreq, nout, dispatched, delivered, handed>>
        /\ UNCHANGED hvars

\* the connection is closed and its Handler discarded
SConnectionClosed ==
    \E c \in 1..Len(conns) :
        /\ conns[c].open
        /\ Ops < MaxOps
        /\ live' = [live EXCEPT ![conns[c].peer][conns[c].addr] = @ - 1]
        /\ connected_peers' = Behaviour_inject_connection_closed(connected_peers, conns[c].peer, conns[c].addr)
        /\ conns' = [conns EXCEPT ![c].open = FALSE]
        /\ UNCHANGED <<protocol_in_events, protocol_out_events, notified, nconn, nreq, nout, dispatched, delivered, handed>>
        /\ UNCHANGED hvars

\* the swarm polls the Behaviour and carries out what it yields
SBehaviourPoll ==
    LET r == Behaviour_poll(protocol_in_events, protocol_out_events, connected_peers)
        targets == {c \in 1..Len(conns) : conns[c].open /\ conns[c].peer = r.ret.peer_id}
    IN  /\ protocol_in_events' = r.protocol_in_events
        /\ protocol_out_events' = r.protocol_out_events
        /\ dispatched' = IF r.ret.type = "NotifyHandler"
                         THEN Append(dispatched, InEntry(r.ret.peer_id, r.ret.event))
                         ELSE dispatched
        /\ delivered' = IF r.ret.type = "GenerateEvent"
                        THEN Append(delivered, r.ret.out)
                        ELSE delivered
        /\ IF r.ret.type # "NotifyHandler"
           THEN UNCHANGED <<conns, handed>>
           ELSE IF targets = {}
           THEN /\ handed' = handed \cup {[fn |-> r.ret.event.fn, conn |-> 0]}
                /\ UNCHANGED conns
           ELSE \E c \in targets :
                /\ handed' = handed \cup {[fn |-> r.ret.event.fn, conn |-> c]}
                /\ conns' = [conns EXCEPT ![c].state =
                                Handler_inject_event(conns[c].state, r.ret.event).state]
        /\ UNCHANGED <<connected_peers, live, notified, nconn, nreq, nout>>
        /\ UNCHANGED hvars

\* the swarm polls the Handler of an open connection and carries out what it
\* yields
SHandlerPoll(c) ==
    /\ Open(c)
    /\ LET r == Handler_poll(conns[c].state, conns[c].fut) IN
        /\ conns' = [conns EXCEPT ![c].state = r.state,
                                  ![c].neg = IF r.ret = OutboundSubstreamRequest
                                             THEN "wanted" ELSE @]
        /\ IF r.ret.type = "Custom"
           THEN /\ protocol_out_events' =
                        Behaviour_inject_event(protocol_out_events, conns[c].peer, r.ret.ev)
                /\ nout' = nout + 1
           ELSE UNCHANGED <<protocol_out_events, nout>>
    /\ UNCHANGED <<protocol_in_events, connected_peers, live, notified, nconn, nreq, dispatched, delivered, handed>>
    /\ UNCHANGED hvars

\* the outbound substream the Handler asked for is negotiated
SNegotiated(c) ==
    /\ Open(c)
    /\ conns[c].neg = "wanted"
    /\ conns' = [conns EXCEPT ![c].state =
                        Handler_inject_fully_negotiated_outbound(conns[c].state, c).state,
                              ![c].neg = "done"]
    /\ UNCHANGED <<bvars, hvars, handed>>

\* the negotiation of the outbound substream the Handler asked for fails
SNegotiationFailed(c) ==
    /\ Open(c)
    /\ conns[c].neg = "wanted"
    /\ conns' = [conns EXCEPT ![c].state =
                        Handler_inject_dial_upgrade_error(conns[c].state).state,
                              ![c].neg = "failed"]
    /\ UNCHANGED <<bvars, hvars, handed>>

\* the remote, running the protocol as dialer, opens its substream; it does
\* so once, to a Handler that is idle or waiting for it
SInboundSubstream(c) ==
    /\ Open(c)
    /\ ~conns[c].inb
    /\ conns[c].state = None \/ (conns[c].state.kind = "Inbound" /\ conns[c].state.st = "GotFunctionNeedSubstream")
    /\ conns' = [conns EXCEPT ![c].state =
                        Handler_inject_fully_negotiated_inbound(conns[c].state, c).state,
                              ![c].inb = TRUE]
    /\ UNCHANGED <<bvars, hvars, handed>>

\* the protocol function run by the Handler of connection c completes
SFutureReady(c) ==
    /\ Open(c)
    /\ conns[c].state.st = "Executing"
    /\ conns[c].fut = "Pending"
    /\ \E val \in {"Ok", "Err"} : conns' = [conns EXCEPT ![c].fut = val]
    /\ UNCHANGED <<bvars, hvars, handed>>

ConnIds == 1..MaxOps

SHandlerPolls == \E c \in ConnIds : SHandlerPoll(c)
SNegotiations == \E c \in ConnIds : SNegotiated(c)
SNegotiationFailures == \E c \in ConnIds : SNegotiationFailed(c)
SInboundSubstreams == \E c \in ConnIds : SInboundSubstream(c)
SFuturesReady == \E c \in ConnIds : SFutureReady(c)

NextSys ==
    \/ BDoProtocolListener
    \/ BDoProtocolDialer
    \/ SConnectionEstablished
    \/ SConnectionClosed
    \/ SBehaviourPoll
    \/ SHandlerPolls
    \/ SNegotiations
    \/ SNegotiationFailures
    \/ SInboundSubstreams
    \/ SFuturesReady

SpecSys == Init /\ [][NextSys]_vars

\* the swarm keeps polling the Behaviour and every Handler, every
\* negotiation it started ends (one way or the other), the remote opens the
\* substream a listener waits for, and every protocol function completes
SpecSysFair ==
    /\ SpecSys
    /\ WF_vars(SBehaviourPoll)
    /\ \A c \in ConnIds :
        /\ WF_vars(SHandlerPoll(c))
        /\ WF_vars(SNegotiated(c) \/ SNegotiationFailed(c))
        /\ WF_vars(SInboundSubstream(c))
        /\ WF_vars(SFutureReady(c))

(***************************************************************************)
(* Properties of the Handler.                                               *)
(***************************************************************************)
Dirs == {"Inbound", "Outbound"}

\* this step is the call op of direction dir on the Handler
HCall(op, dir) == last'.op = op /\ last'.dir = dir /\ fut' = fut

Executing(d, f, s) == PState(d, "Executing", f, s)

\* a request of direction d is parked (awaiting its substream, or its
\* substream requested) or executing
HoldsRequest(d) ==
    /\ state.kind = d
    /\ state.st \in {"GotFunctionNeedSubstream", "GotFunctionRequestedSubstream", "Executing"}

\* C1 (single flight): over the life of a Handler at most one protocol
\* function is ever paired with a substream, the one executing is that one,
\* and a submit of direction d made while a request of direction d is parked
\* or executing panics, starts no execution and installs no function.
C1_SingleFlight ==
    /\ [](Len(started) <= 1)
    /\ [](state.st = "Executing" =>
            started = <<[dir |-> state.kind, fn |-> state.fn, sub |-> state.sub]>>)
    /\ [][\A d \in Dirs :
            (HCall("inject_event", d) /\ HoldsRequest(d)) =>
                /\ last'.panic = "Illegal state, protocol fn is already present."
                /\ started' = started
                /\ state' = Poisoned]_vars

\* a duplicate submit was made while the first request was executing
C1_Witness ==
    /\ last.op = "inject_event"
    /\ last.panic = "Illegal state, protocol fn is already present."
    /\ Len(started) = 1
    /\ state = Poisoned

\* the steps that make up the two arrival orders, for direction d
SubstreamFirst(d) ==
    /\ \A s \in Subs :
        (state = None /\ HCall(IF d = "Inbound" THEN "inject_fully_negotiated_inbound"
                                ELSE "inject_fully_negotiated_outbound", d) /\ last'.sub = s) =>
            /\ last'.panic = NoPanic
            /\ state' = PState(d, "GotSubstreamNeedFunction", NoFn, s)
    /\ (state.kind = d /\ state.st = "GotSubstreamNeedFunction" /\ HCall("poll", "-")) =>
            /\ last'.ret = PollPending
            /\ state' = state
    /\ \A f \in Fns :
        (state.kind = d /\ state.st = "GotSubstreamNeedFunction"
            /\ HCall("inject_event", d) /\ last'.fn = f) =>
            /\ state' = Executing(d, f, state.sub)
            /\ started' = Append(started, [dir |-> d, fn |-> f, sub |-> state.sub])

SubmitFirst(d, parkedStates) ==
    /\ \A f \in Fns :
        (state = None /\ HCall("inject_event", d) /\ last'.fn = f) =>
            /\ last'.panic = NoPanic
            /\ state' = PState(d, "GotFunctionNeedSubstream", f, NoSub)
    /\ (state.kind = d /\ state.st \in {"GotFunctionNeedSubstream", "GotFunctionRequestedSubstream"}
            /\ HCall("poll", "-")) =>
            /\ state'.kind = d
            /\ state'.st \in {"GotFunctionNeedSubstream", "GotFunctionRequestedSubstream"}
            /\ state'.fn = state.fn
    /\ \A s \in Subs :
        (state.kind = d /\ state.st \in parkedStates
            /\ HCall(IF d = "Inbound" THEN "inject_fully_negotiated_inbound"
                     ELSE "inject_fully_negotiated_outbound", d) /\ last'.sub = s) =>
            /\ state' = Executing(d, state.fn, s)
            /\ started' = Append(started, [dir |-> d, fn |-> state.fn, sub |-> s])

\* the outcome poll yields depends only on the pairing that is executing
SameOutcome(d) ==
    (state.kind = d /\ state.st = "Executing" /\ fut # "Pending" /\ HCall("poll", "-")) =>
        last'.ret = Custom(ProtocolOutEvent(d, ResultOf(Protocol(state.fn, state.sub), fut)))

\* C2 as stated: for both directions, substream-then-submit and
\* submit-then-substream (polls interleaved anywhere) reach Executing with
\* f on s and yield the same outcome.
C2_AsStated ==
    [][\A d \in Dirs :
        /\ SubstreamFirst(d)
        /\ SubmitFirst(d, {"GotFunctionNeedSubstream", "GotFunctionRequestedSubstream"})
        /\ SameOutcome(d)]_vars

\* C2 (amended): for Inbound both arrival orders reach Executing with f on s
\* and yield the same outcome.  For Outbound only submit, then a poll that
\* yields OutboundSubstreamRequest, then the substream reaches Executing; an
\* outbound substream delivered to a fresh Handler or before that poll
\* panics.
C2_OrderIndependentInbound ==
    [][/\ SubstreamFirst("Inbound")
       /\ SubmitFirst("Inbound", {"GotFunctionNeedSubstream"})
       /\ SameOutcome("Inbound")
       /\ SubmitFirst("Outbound", {"GotFunctionRequestedSubstream"})
       /\ SameOutcome("Outbound")
       /\ (state.kind = "Outbound" /\ state.st = "GotFunctionNeedSubstream" /\ HCall("poll", "-")) =>
            /\ last'.ret = OutboundSubstreamRequest
            /\ state' = OutboundGotFunctionRequestedSubstream(state.fn)
       /\ ((state = None \/ (state.kind = "Outbound" /\ state.st = "GotFunctionNeedSubstream"))
            /\ HCall("inject_fully_negotiated_outbound", "Outbound")) =>
            /\ last'.panic = "Illegal state, receiving substream means it was requested."
            /\ state' = Poisoned
            /\ started' = started]_vars

\* the inbound substream came first and the submit paired it with f
C2_Witness ==
    /\ last.op = "inject_event"
    /\ last.dir = "Inbound"
    /\ last.panic = NoPanic
    /\ state = Executing("Inbound", last.fn, state.sub)
    /\ started = <<[dir |-> "Inbound", fn |-> last.fn, sub |-> state.sub]>>

\* C3 (single delivery): poll yields an outcome event at most once; it does
\* so exactly in the poll call that finds the running future ready, with the
\* direction of the executed request, and leaves Done; a poll in Done yields
\* Pending, stays Done and yields nothing again.
C3_SingleDelivery ==
    /\ [](Len(outEvents) <= 1)
    /\ [][HCall("poll", "-") =>
            /\ (last'.ret.type = "Custom") <=> (state.st = "Executing" /\ fut # "Pending")
            /\ (last'.ret.type = "Custom") =>
                    /\ state' = Done
                    /\ last'.ret.ev.dir = state.kind
                    /\ last'.ret.ev.res = ResultOf(Protocol(state.fn, state.sub), fut)
                    /\ outEvents' = Append(outEvents, last'.ret.ev)
            /\ (state = Done) =>
                    /\ last'.ret = PollPending
                    /\ state' = Done
                    /\ outEvents' = outEvents]_vars

\* the outcome was yielded and a later poll, in Done, gave Pending
C3_Witness ==
    /\ state = Done
    /\ Len(outEvents) = 1
    /\ last.op = "poll"
    /\ last.ret = PollPending


TypeOKH ==
    /\ state \in ProtocolState
    /\ fut \in {"Pending", "Ok", "Err"}
    /\ requested \in 0..1

\* the environment reported a dial/upgrade failure for the outbound request
\* whose substream had been requested
DialFailedWhileRequested ==
    /\ last.op = "inject_dial_upgrade_error"
    /\ state.kind = "Outbound"
    /\ state.st = "GotFunctionRequestedSubstream"

\* C8 (negotiation failure is reported): after a dial/upgrade failure for an
\* outbound request whose substream was requested, poll eventually yields an
\* outcome for that execution; the Handler does not stay in
\* GotFunctionRequestedSubstream for ever without yielding one.  (A Handler
\* halted by a later usage error is not held against the claim.)
C8_DialFailureSurfaced ==
    DialFailedWhileRequested ~> (outEvents # <<>> \/ state = Poisoned)

\* C9 as stated: a second submit(Outbound, f2) while an outbound request is
\* held fails and leaves the Handler's state holding the first request.
C9_AsStated ==
    [][(HCall("inject_event", "Outbound") /\ state.kind = "Outbound") =>
            /\ last'.panic # NoPanic
            /\ state' = state]_vars

\* C9 (amended): a second submit(Outbound, f2) while an outbound request is
\* held panics and does not install f2; the Handler is left Poisoned, the
\* first request is dropped with the state it was in, and from then on every
\* call panics, the state stays Poisoned and poll yields no outcome.
C9_DuplicateOutboundHalts ==
    [][/\ (HCall("inject_event", "Outbound") /\ state.kind = "Outbound") =>
            /\ last'.panic = "Illegal state, protocol fn is already present."
            /\ last'.ret = Unwound
            /\ state' = Poisoned
            /\ outEvents' = outEvents
            /\ started' = started
       /\ (state = Poisoned) =>
            /\ state' = Poisoned
            /\ last'.panic # NoPanic \/ last'.op = "inject_dial_upgrade_error"
            /\ outEvents' = outEvents
            /\ started' = started
            /\ requested' = requested]_vars

\* a second outbound submit hit a Handler whose outbound request was waiting
\* for its requested substream, and a later poll panicked instead of yielding
C9_Witness ==
    /\ state = Poisoned
    /\ requested = 1
    /\ started = <<>>
    /\ last.op = "poll"
    /\ last.panic = "Protocol is poisoned (transient state)"

(***************************************************************************)
(* Properties of the Behaviour.                                             *)
(***************************************************************************)
Range(seq) == {seq[i] : i \in 1..Len(seq)}

\* the number of occurrences of x in seq
Count(seq, x) == Cardinality({i \in 1..Len(seq) : seq[i] = x})

\* this step is a poll call that yielded NotifyHandler for request r
Dispatches(r) == dispatched' = Append(dispatched, r)

\* this step is a Behaviour::poll call
IsBehaviourPoll ==
    /\ UNCHANGED <<nreq, nout, nconn, live>>
    /\ UNCHANGED hvars

\* C4 (connectivity gating): poll yields NotifyHandler for a request only
\* when the request's peer has at least one connection that was established
\* and is not closed.
C4_ConnectivityGating ==
    [][\A r \in Range(protocol_in_events) :
            Dispatches(r) => Connections(r.peer) > 0]_vars

\* C5 (per-peer ordering): two requests for the same peer are dispatched in
\* the order they were submitted (the k-th submitted request carries
\* closure k).
C5_PerPeerOrder ==
    \A i, j \in 1..Len(dispatched) :
        (i < j /\ dispatched[i].peer = dispatched[j].peer) =>
            dispatched[i].event.fn < dispatched[j].event.fn

\* request number f is in the pending queue / has been dispatched
Pending(f) == \E r \in Range(protocol_in_events) : r.event.fn = f
Dispatched(f) == \E r \in Range(dispatched) : r.event.fn = f
PeerOf(f) == (CHOOSE r \in Range(protocol_in_events) : r.event.fn = f).peer

C10_AddressMultiset ==
    \A peer \in Peers, addr \in Addrs :
        Count(Behaviour_addresses_of_peer(connected_peers, peer), addr) = live[peer][addr]

(***************************************************************************)
(* Properties of the Behaviour together with its Handlers.                  *)
(***************************************************************************)
\* the application has received the outcome of request number f
DeliveredFor(f) == \E e \in Range(delivered) : e.res.fn = f

\* the Handler that was to run request number f is gone: the peer had no
\* open connection when the request was dispatched, or the connection was
\* closed since, or a usage error halted the Handler
HandlerGone(f) ==
    \E h \in handed :
        /\ h.fn = f
        /\ \/ h.conn = 0
           \/ ~conns[h.conn].open
           \/ conns[h.conn].state = Poisoned

\* C7 (one outcome per request): the application receives at most one event
\* per request, every event it receives carries the peer and the direction of
\* its request, and every request that poll dispatched eventually has its
\* event received, unless the Handler that was given it is gone.
C7_OneOutcomePerRequest ==
    /\ [](\A f \in 1..MaxOps :
            Cardinality({i \in 1..Len(delivered) : delivered[i].res.fn = f}) <= 1)
    /\ [](\A e \in Range(delivered) :
            \E r \in Range(dispatched) :
                /\ r.event.fn = e.res.fn
                /\ r.peer = e.peer
                /\ r.event.type = (IF e.dir = "Inbound" THEN "ExecuteInbound" ELSE "ExecuteOutbound"))
    /\ \A f \in 1..MaxOps :
            Dispatched(f) ~> (DeliveredFor(f) \/ HandlerGone(f))

(***************************************************************************)
(* Further properties of the Behaviour.                                     *)
(***************************************************************************)
\* seq with every occurrence of x taken out, the rest in its order
RECURSIVE Without(_, _)
Without(seq, x) ==
    IF seq = <<>> THEN <<>>
    ELSE IF Head(seq) = x THEN Without(Tail(seq), x)
         ELSE <<Head(seq)>> \o Without(Tail(seq), x)

\* this step is inject_connection_closed for a connection to peer through addr
Closes(peer, addr) == live'[peer][addr] = live[peer][addr] - 1

\* C11 (disconnect frame): inject_connection_closed(P, a) leaves in
\* addresses_of_peer(P) exactly the addresses different from a, in the order
\* they had, leaves addresses_of_peer of every other peer as it was, and
\* changes neither protocol_in_events nor protocol_out_events.
C11_DisconnectFrame ==
    [][\A peer \in Peers, addr \in Addrs :
        Closes(peer, addr) =>
            /\ Behaviour_addresses_of_peer(connected_peers', peer)
                    = Without(Behaviour_addresses_of_peer(connected_peers, peer), addr)
            /\ \A other \in Peers \ {peer} :
                    Behaviour_addresses_of_peer(connected_peers', other)
                        = Behaviour_addresses_of_peer(connected_peers, other)
            /\ protocol_in_events' = protocol_in_events
            /\ protocol_out_events' = protocol_out_events]_vars

\* a peer had connections through a1 and a2, in that order, and the one
\* through a1 was closed: [a2] is left
C11_Witness ==
    \E peer \in Peers :
        /\ nconn = 2
        /\ live[peer] = [addr \in Addrs |-> IF addr = "a2" THEN 1 ELSE 0]
        /\ Behaviour_addresses_of_peer(connected_peers, peer) = <<"a2">>

(***************************************************************************)
(* Further properties of the Handler.                                       *)
(***************************************************************************)
\* C12 (outbound substream request): poll yields OutboundSubstreamRequest
\* exactly when it finds Outbound(GotFunctionNeedSubstream), moving to
\* GotFunctionRequestedSubstream with the same function, so at most once per
\* Handler and never on a later poll; inject_fully_negotiated_outbound
\* returns, pairing the function with the substream, exactly when the state
\* is GotFunctionRequestedSubstream, i.e. after the request was yielded; in
\* None and in GotFunctionNeedSubstream it panics and starts nothing.
C12_OutboundRequestOnce ==
    /\ [](requested <= 1)
    /\ [](state.kind = "Outbound" =>
            requested = (IF state.st = "GotFunctionNeedSubstream" THEN 0 ELSE 1))
    /\ [][HCall("poll", "-") =>
            /\ (last'.ret = OutboundSubstreamRequest)
                    <=> (state.kind = "Outbound" /\ state.st = "GotFunctionNeedSubstream")
            /\ (last'.ret = OutboundSubstreamRequest) =>
                    /\ state' = OutboundGotFunctionRequestedSubstream(state.fn)
                    /\ requested' = requested + 1]_vars
    /\ [][\A s \in Subs :
            (HCall("inject_fully_negotiated_outbound", "Outbound") /\ last'.sub = s) =>
                /\ (last'.panic = NoPanic)
                        <=> (state.kind = "Outbound" /\ state.st = "GotFunctionRequestedSubstream")
                /\ (last'.panic = NoPanic) =>
                        /\ requested = 1
                        /\ state' = Executing("Outbound", state.fn, s)
                        /\ started' = Append(started, [dir |-> "Outbound", fn |-> state.fn, sub |-> s])
                /\ (state = None \/ (state.kind = "Outbound" /\ state.st = "GotFunctionNeedSubstream")) =>
                        /\ last'.panic = "Illegal state, receiving substream means it was requested."
                        /\ state' = Poisoned
                        /\ started' = started]_vars

\* the request was yielded once and a later poll, the substream still
\* outstanding, gave Pending
C12_Witness ==
    /\ state.kind = "Outbound"
    /\ state.st = "GotFunctionRequestedSubstream"
    /\ requested = 1
    /\ last.op = "poll"
    /\ last.ret = PollPending

\* this step is a submit or a substream delivery, of either direction
HSubmitOrSubstream ==
    \E d \in Dirs :
        \/ HCall("inject_event", d)
        \/ HCall("inject_fully_negotiated_inbound", d)
        \/ HCall("inject_fully_negotiated_outbound", d)

\* C13 (Done is terminal): a Handler starts in None; from Done no step leads
\* to None, to a parked state or to Executing; poll in Done returns Pending
\* and leaves Done; every submit and every substream delivery in Done panics,
\* starts no execution and halts the Handler (Poisoned); and once the
\* outcome has been yielded the Handler is Done or halted for ever.
C13_DoneTerminal ==
    /\ state = None
    /\ [](outEvents # <<>> => state \in {Done, Poisoned})
    /\ [][(state = Done) =>
            /\ state' \in {Done, Poisoned}
            /\ started' = started
            /\ outEvents' = outEvents
            /\ HCall("poll", "-") => (state' = Done /\ last'.ret = PollPending)
            /\ HSubmitOrSubstream =>
                    /\ last'.panic \in {"Illegal state, protocol fn is already present.",
                                        "Illegal state, substream is already present."}
                    /\ last'.ret = Unwound
                    /\ state' = Poisoned]_vars

\* an inbound function was submitted to a Handler that had already yielded
\* its outcome
C13_Witness ==
    /\ last.op = "inject_event"
    /\ last.dir = "Inbound"
    /\ last.panic = "Illegal state, protocol fn is already present."
    /\ Len(outEvents) = 1
    /\ state = Poisoned

Opposite(d) == IF d = "Inbound" THEN "Outbound" ELSE "Inbound"

\* this step delivers a substream of direction d
HSubstream(d) ==
    HCall(IF d = "Inbound" THEN "inject_fully_negotiated_inbound"
          ELSE "inject_fully_negotiated_outbound", d)

\* the Handler holds a substream of its direction: parked, or in the running
\* future
HoldsSubstream == state.st \in {"GotSubstreamNeedFunction", "Executing"}

\* the call of this step ended in a fatal error that started no execution
\* and put neither a function nor a substream in the state
HFatal ==
    /\ last'.panic # NoPanic
    /\ last'.ret = Unwound
    /\ state' = Poisoned
    /\ started' = started
    /\ outEvents' = outEvents
    /\ requested' = requested

\* C14 (direction exclusivity): while the state is Inbound(_) or
\* Outbound(_), every submit and every substream delivery of the opposite
\* direction panics, and so does a substream delivery of the same direction
\* when a substream is already held (parked or executing); none of these
\* calls starts an execution or puts its function or substream in the state.
C14_DirectionExclusive ==
    [][\A d \in Dirs :
        (state.kind = d) =>
            /\ (HCall("inject_event", Opposite(d)) \/ HSubstream(Opposite(d))) =>
                    /\ HFatal
                    /\ last'.panic \in {
                            "Failed to process inbound substream in outbound protocol.",
                            "Failed to process outbound substream in inbound protocol.",
                            "Failed to process inbound protocol fn in outbound protocol.",
                            "Failed to process outbound protocol fn in inbound protocol."}
            /\ (HSubstream(d) /\ HoldsSubstream) =>
                    /\ HFatal
                    /\ last'.panic = "Illegal state, substream is already present."]_vars

\* an inbound substream arrived at a Handler holding an outbound request
C14_Witness ==
    /\ last.op = "inject_fully_negotiated_inbound"
    /\ last.panic = "Failed to process inbound substream in outbound protocol."
    /\ state = Poisoned
    /\ started = <<>>

\* the request at the head of protocol_in_events is one poll dispatches
HeadDispatchable ==
    /\ protocol_in_events # <<>>
    /\ Head(protocol_in_events).peer \in DOMAIN connected_peers

\* C15 (poll step order): one Behaviour::poll call takes at most the head
\* request off protocol_in_events, dispatching it or putting it back at the
\* tail; it yields at most one of NotifyHandler and GenerateEvent; it yields
\* the head of protocol_out_events exactly when it dispatched nothing and
\* that queue is not empty, also when it has just re-enqueued the head
\* request; and it yields Pending only when it dispatched nothing and
\* protocol_out_events is empty.
C15_PollStepOrder ==
    [][IsBehaviourPoll =>
        LET dispatchedOne == dispatched' # dispatched
            deliveredOne == delivered' # delivered
        IN  /\ protocol_in_events' =
                    IF protocol_in_events = <<>> THEN <<>>
                    ELSE IF dispatchedOne THEN Tail(protocol_in_events)
                    ELSE Append(Tail(protocol_in_events), Head(protocol_in_events))
            /\ Len(dispatched') + Len(delivered') <= Len(dispatched) + Len(delivered) + 1
            /\ dispatchedOne <=> HeadDispatchable
            /\ dispatchedOne =>
                    /\ dispatched' = Append(dispatched, Head(protocol_in_events))
                    /\ protocol_out_events' = protocol_out_events
            /\ deliveredOne <=> (~dispatchedOne /\ protocol_out_events # <<>>)
            /\ deliveredOne =>
                    /\ delivered' = Append(delivered,
                            BehaviourOutEvent(Head(protocol_out_events).event.dir,
                                              Head(protocol_out_events).peer,
                                              Head(protocol_out_events).event.res))
                    /\ protocol_out_events' = Tail(protocol_out_events)
            /\ (~dispatchedOne /\ ~deliveredOne) =>
                    /\ protocol_out_events = <<>>
                    /\ protocol_out_events' = <<>>]_vars

\* two requests wait for a peer without a connection; a poll put the first
\* behind the second and, in the same call, yielded the one outcome injected
C15_Witness ==
    /\ nreq = 2
    /\ nout = 1
    /\ dispatched = <<>>
    /\ Len(protocol_in_events) = 2
    /\ protocol_in_events[1].event.fn = 2
    /\ Len(delivered) = 1

\* the entries of a results queue as the events the application is to get
AsOutEvents(queue) ==
    [i \in 1..Len(queue) |->
        BehaviourOutEvent(queue[i].event.dir, queue[i].peer, queue[i].event.res)]

\* the events already yielded followed by those still due
Routed == delivered \o AsOutEvents(protocol_out_events)

\* C16 (result routing): Behaviour::inject_event appends its outcome to the
\* tail of protocol_out_events; the outcomes yielded so far followed by the
\* outcomes still queued are, at every moment, all the outcomes injected, in
\* injection order (the k-th injected carries k), and no step changes the
\* peer, the direction or the result of any of them; so each is yielded at
\* most once, unaltered and in FIFO order.  The Behaviour being polled again
\* and again, the k-th outcome injected is eventually yielded, whatever
\* requests sit in protocol_in_events.
C16_ResultRouting ==
    /\ [](Len(Routed) = nout /\ \A k \in 1..nout : Routed[k].res.fn = k)
    /\ [][/\ \A k \in 1..nout : Routed'[k] = Routed[k]
          /\ (nout' = nout + 1) =>
               /\ delivered' = delivered
               /\ Len(protocol_out_events') = Len(protocol_out_events) + 1
               /\ protocol_out_events' =
                       Append(protocol_out_events, protocol_out_events'[Len(protocol_out_events')])
               /\ protocol_out_events'[Len(protocol_out_events')].peer \in Peers
               /\ protocol_out_events'[Len(protocol_out_events')].event.dir \in Dirs]_vars
    /\ \A k \in 1..MaxOps : (nout >= k) ~> (Len(delivered) >= k)

\* two outcomes were injected and both yielded, first the first, while a
\* request for a peer that never had a connection waits in the queue
C16_Witness ==
    /\ nout = 2
    /\ Len(delivered) = 2
    /\ delivered[1].res.fn = 1
    /\ delivered[2].res.fn = 2
    /\ \E r \in Range(protocol_in_events) : r.peer \notin notified

\* how many entries of seq carry request number f
Carrying(seq, f) == Cardinality({i \in 1..Len(seq) : seq[i].event.fn = f})

\* C17 (pending-request conservation): every request submitted so far (the
\* k-th carries k) is either exactly once in protocol_in_events and not
\* dispatched, or dispatched exactly once and no longer queued; a submit
\* appends one entry, with its peer and its direction, at the tail and
\* touches nothing else in the queue; and no other step, the re-enqueue of
\* poll included, adds, removes or alters a request.
C17_PendingConservation ==
    /\ [](/\ Len(protocol_in_events) + Len(dispatched) = nreq
           /\ \A f \in 1..nreq :
                Carrying(protocol_in_events, f) + Carrying(dispatched, f) = 1)
    /\ [][/\ (nreq' = nreq + 1) =>
               /\ dispatched' = dispatched
               /\ \E peer \in Peers, type \in {"ExecuteInbound", "ExecuteOutbound"} :
                       protocol_in_events' =
                           Append(protocol_in_events,
                                  InEntry(peer, [type |-> type, fn |-> nreq + 1]))
          /\ (nreq' = nreq) =>
               Range(protocol_in_events') \cup Range(dispatched')
                   = Range(protocol_in_events) \cup Range(dispatched)]_vars

\* the first request, for a peer without a connection, was re-enqueued and
\* is still queued; the second, submitted after it, was dispatched
C17_Witness ==
    /\ nreq = 2
    /\ Len(dispatched) = 1
    /\ dispatched[1].event.fn = 2
    /\ Len(protocol_in_events) = 1
    /\ protocol_in_events[1].event.fn = 1
    /\ protocol_in_events[1].peer \notin notified

\* C18 (execution termination): a step that takes the Handler out of
\* Executing is either the poll call that finds the future ready, which
\* yields the outcome and leaves Done, or a call that ends in a fatal usage
\* error and halts the Handler; a poll that finds the future pending, and
\* every other call that returns, leaves the state Executing with the same
\* future.  The Handler being polled again and again, a future that is
\* ready leads to Done (unless a usage error halts the Handler first), and
\* while the future is pending no poll, however many, leaves Executing.
C18_ExecutionTermination ==
    /\ [][(state.st = "Executing") =>
            /\ (state' = Done) <=> (HCall("poll", "-") /\ fut # "Pending")
            /\ (state' = Done) => last'.ret.type = "Custom"
            /\ (state' # state /\ state' # Done) => HFatal
            /\ (last'.panic = NoPanic /\ state' # Done) => state' = state
            /\ (HCall("poll", "-") /\ fut = "Pending") =>
                    (state' = state /\ last'.ret = PollPending)]_vars
    /\ (state.st = "Executing" /\ fut # "Pending") ~> (state = Done \/ state = Poisoned)

\* the future completed, and the poll that found it ready yielded its
\* outcome and left Done
C18_Witness ==
    /\ state = Done
    /\ last.op = "poll"
    /\ last.ret.type = "Custom"
    /\ outEvents = <<last.ret.ev>>

\* C19 (peer entries are never removed): no step takes a key out of
\* connected_peers, so its keys are at every moment the peers for which a
\* connection was ever established; inject_connection_closed leaves the
\* entries of the other peers as they are and leaves the peer's own entry in
\* place with some of its addresses taken out; and addresses_of_peer gives
\* the empty list for a peer that is no key, a lookup that computes a value
\* from the map and writes nothing: connected_peers changes only in
\* inject_connection_established and inject_connection_closed.
C19_PeerEntriesKept ==
    /\ [](DOMAIN connected_peers = notified)
    /\ [](\A peer \in Peers \ DOMAIN connected_peers :
            Behaviour_addresses_of_peer(connected_peers, peer) = <<>>)
    /\ [][DOMAIN connected_peers \subseteq DOMAIN connected_peers']_vars
    /\ [][(connected_peers' # connected_peers) =>
            (nconn' = nconn + 1 \/ \E peer \in Peers, addr \in Addrs : Closes(peer, addr))]_vars
    /\ [][\A peer \in Peers, addr \in Addrs :
            Closes(peer, addr) =>
                /\ DOMAIN connected_peers' = DOMAIN connected_peers
                /\ \A other \in DOMAIN connected_peers \ {peer} :
                        connected_peers'[other] = connected_peers[other]
                /\ Len(connected_peers'[peer]) <= Len(connected_peers[peer])
                /\ Range(connected_peers'[peer]) \subseteq Range(connected_peers[peer])]_vars

\* the only connection of a peer was closed: the peer is still a key, with
\* an empty address list
C19_Witness ==
    \E peer \in DOMAIN connected_peers :
        /\ connected_peers[peer] = <<>>
        /\ Connections(peer) = 0

\* the states in which poll has nothing to do
IdleForPoll ==
    \/ state = None
    \/ state = Done
    \/ state.kind = "Inbound" /\ state.st \in {"GotSubstreamNeedFunction", "GotFunctionNeedSubstream"}
    \/ state.kind = "Outbound" /\ state.st = "GotFunctionRequestedSubstream"

\* C20 (idle poll frame): in None, Inbound(GotSubstreamNeedFunction),
\* Inbound(GotFunctionNeedSubstream), Outbound(GotFunctionRequestedSubstream)
\* and Done, poll returns Pending, leaves the state as it was, parked
\* function or substream included, and yields nothing.  The Poisoned
\* sentinel is never left in place by a call that returns: a step that puts
\* it there is a call that panicked, and after a call that matched on the
\* state and returned the state is not Poisoned.  (inject_dial_upgrade_error
\* does not look at the state and returns whatever it holds.)
C20_IdlePollFrame ==
    /\ [][(HCall("poll", "-") /\ IdleForPoll) =>
            /\ last'.ret = PollPending
            /\ last'.panic = NoPanic
            /\ state' = state
            /\ started' = started
            /\ outEvents' = outEvents
            /\ requested' = requested]_vars
    /\ [][(state # Poisoned /\ state' = Poisoned) =>
            (last'.panic # NoPanic /\ last'.ret = Unwound)]_vars
    /\ []((last.panic = NoPanic /\ last.op # "inject_dial_upgrade_error") => state # Poisoned)

\* an inbound substream is parked, and a poll returned Pending and left it
\* parked
C20_Witness ==
    /\ state.kind = "Inbound"
    /\ state.st = "GotSubstreamNeedFunction"
    /\ state.sub \in Subs
    /\ last.op = "poll"
    /\ last.ret = PollPending

=============================================================================
